---- MODULE Spec2Model ----
(***************************************************************************)
(* Model of BoxesTest::Boxes (src/boxes.cc): one scenario of the box       *)
(* conservation benchmark, run against an opaque but deterministic         *)
(* simulator whose behaviour is fixed by the record `sim` chosen in Init.  *)
(*                                                                         *)
(* Units.  Time is counted in ticks, TicksPerSec ticks to the second.      *)
(* Velocities and box dimensions are in tenths, inertia in 1e-8, energies  *)
(* are fixed-point numbers of five base-1e5 limbs, least significant       *)
(* first, whose unit is 1e-15 (so limb 4 is the integer part).             *)
(***************************************************************************)
EXTENDS Integers, Sequences, FiniteSets, TLC

\* ---- bounds of the model ----
MaxModels == 2
TicksPerSec == 3
MinDt == 7
MaxDt == 10
BigDt == 45
MaxErrAmp == 1
MaxRuns == 2
MaxWall == 2

\* ---- fixed-point helpers ----
LimbBase == 100000

Abs(x) == IF x < 0 THEN -x ELSE x

Ceil(a, b) == (a + b - 1) \div b

LNorm(x) ==
  LET c1 == x[1]
      c2 == x[2] + (c1 \div LimbBase)
      c3 == x[3] + (c2 \div LimbBase)
      c4 == x[4] + (c3 \div LimbBase)
      c5 == x[5] + (c4 \div LimbBase)
  IN  <<c1 % LimbBase, c2 % LimbBase, c3 % LimbBase, c4 % LimbBase, c5>>

LAdd(x, y) == LNorm([i \in 1..5 |-> x[i] + y[i]])

LScale(x, k) == LNorm([i \in 1..5 |-> x[i] * k])

LLess(x, y) ==
  \E i \in 1..5 : x[i] < y[i] /\ \A j \in (i+1)..5 : x[j] = y[j]

LAbsDiff(x, y) ==
  IF LLess(x, y) THEN LNorm([i \in 1..5 |-> y[i] - x[i]])
                 ELSE LNorm([i \in 1..5 |-> x[i] - y[i]])

\* division by a small k, most significant limb first (truncated at 1e-15)
LDivSmall(x, k) ==
  LET v4 == x[4] + LimbBase * (x[5] % k)
      v3 == x[3] + LimbBase * (v4 % k)
      v2 == x[2] + LimbBase * (v3 % k)
      v1 == x[1] + LimbBase * (v2 % k)
  IN  <<v1 \div k, v2 \div k, v3 \div k, v4 \div k, x[5] \div k>>

LHalf(x) == LDivSmall(x, 2)

\* x - y as an integer in 1e-15, for numbers that are close
LToIntDiff(x, y) ==
  ((((x[5] - y[5]) * LimbBase + (x[4] - y[4])) * LimbBase
     + (x[3] - y[3])) * LimbBase + (x[2] - y[2])) * LimbBase + (x[1] - y[1])

\* x + d for a signed d given in 1e-10
LShift(x, d) ==
  IF d >= 0 THEN LAdd(x, LNorm(<<0, d % LimbBase, d \div LimbBase, 0, 0>>))
            ELSE LAbsDiff(x, LNorm(<<0, (-d) % LimbBase, (-d) \div LimbBase, 0, 0>>))

\* a value given in hundredths / in 1e-10 as a limb number
LFromHundredths(n) == LNorm(<<0, 0, (n % 100) * 1000, n \div 100, 0>>)
LFromE10(n) == LNorm(<<0, n % LimbBase, n \div LimbBase, 0, 0>>)
LZero == <<0, 0, 0, 0, 0>>

VAdd(a, b) == <<a[1] + b[1], a[2] + b[2], a[3] + b[3]>>
VSub(a, b) == <<a[1] - b[1], a[2] - b[2], a[3] - b[3]>>
VScale(a, k) == <<a[1] * k, a[2] * k, a[3] * k>>
VLen2(a) == a[1] * a[1] + a[2] * a[2] + a[3] * a[3]
VZero == <<0, 0, 0>>

\* ---- constants of the scenario (src/boxes.cc) ----
dx == 1
dy == 4
dz == 9
mass == 10
Ixx == 80833333
Iyy == 68333333
Izz == 14166667
I0 == <<Ixx, Iyy, Izz>>
simDuration == 10
\* 1e-6, in the 1e-8 unit of the inertia and as a limb number
InertiaTol == 100
EnergyTol == <<0, 10000, 0, 0, 0>>
\* |x| <= 1.1 * dt  <=>  TimeTolDen * |x| <= TimeTolNum * dt
TimeTolNum == 11
TimeTolDen == 10

V0(cplx) == IF cplx THEN <<-20, 20, 80>> ELSE <<-9, 4, 1>>
W0(cplx) == IF cplx THEN <<1, 50, 1>> ELSE <<5, 0, 0>>
E0Of(cplx) == IF cplx THEN <<99997, 24999, 54641, 368, 0>>
                      ELSE <<0, 16250, 104, 5, 0>>

DtSet == (MinDt..MaxDt) \cup {BigDt}
Duration == simDuration * TicksPerSec
\* mutant: one step too many
StepsFor_OneMore(d) == Ceil(Duration, d) + 1

StepsFor(d) == Ceil(Duration, d)

RecordNames == <<"wallTime", "simTime", "timeRatio", "energy0", "energyError_",
                 "angMomentum0", "angMomentumErr_", "angPositionErr",
                 "linPositionErr_", "linVelocityErr_">>

\* ---- the simulator: an opaque, deterministic collaborator ----
LoadModes == {"ok", "noWorld", "noPhysics", "wrongType"}
BodyModes == {"ok", "nullModel", "nullLink", "badV", "badW"}
MoiModes == {"analytic", "off"}
EnergyModes == {"analytic", "nominal", "expected", "off"}
MomentumModes == {"analytic", "off"}
StepModes == {"exact", "stuck"}

\* gravity of the blank world, in tenths
WorldDefaultGravity == <<0, 0, -98>>

\* mutant: the axes of the box paired wrongly
BoxInertia12_Swapped(m, x, y, z) ==
  <<m * (x * x + y * y) * 1000000,
    m * (x * x + z * z) * 1000000,
    m * (y * y + z * z) * 1000000>>

\* msgs::AddBoxLink: 12 * inertia of a uniform box (dimensions in tenths),
\* in 1e-8
BoxInertia12(m, x, y, z) ==
  <<m * (y * y + z * z) * 1000000,
    m * (x * x + z * z) * 1000000,
    m * (x * x + y * y) * 1000000>>

\* integration error of the simulator at iteration k, in model units
Wave(k) == (IF k % 2 = 1 THEN 1 ELSE -1) * (4 - (k % 4))
Dev(s, k) == IF k = 0 THEN 0 ELSE s.errAmp * Wave(k)

\* energy deviation of one model unit: 1e-3, in 1e-10
EnergyDevUnit == 10000000

\* twice the kinetic energy: m |v|^2 + sum I_i w_i^2 (v, w in tenths)
KineticEnergy2(m, v, w, inertia) ==
  LAdd(LFromHundredths(m * VLen2(v)),
       LAdd(LScale(LFromE10(inertia[1]), w[1] * w[1]),
            LAdd(LScale(LFromE10(inertia[2]), w[2] * w[2]),
                 LScale(LFromE10(inertia[3]), w[3] * w[3]))))

\* potential energy -m g.p of a body at height pz under gravity gz;
\* every body is spawned at height 0
PotentialEnergy(m, gz, pz) == IF pz = 0 \/ gz = 0 THEN LZero ELSE LScale(LFromHundredths(m), Abs(gz * pz))

\* the same with the exact inertia of the box, given as 12 * inertia
KineticEnergy2Exact(m, v, w, inertia12) ==
  LAdd(LFromHundredths(m * VLen2(v)),
       LDivSmall(LAdd(LScale(LFromE10(inertia12[1]), w[1] * w[1]),
                      LAdd(LScale(LFromE10(inertia12[2]), w[2] * w[2]),
                           LScale(LFromE10(inertia12[3]), w[3] * w[3]))), 12))

\* I_i * w_i for a diagonal inertia in 1e-8 and w in tenths (w >= 0)
Momentum(inertia, w) ==
  <<LScale(LFromE10(inertia[1]), 10 * w[1]),
    LScale(LFromE10(inertia[2]), 10 * w[2]),
    LScale(LFromE10(inertia[3]), 10 * w[3])>>

\* operator== of the math library's vectors and matrices: equal within 1e-6
LNear(x, y, tol) == ~LLess(tol, LAbsDiff(x, y))
LVecEq(a, b) == \A c \in 1..3 : LNear(a[c], b[c], EnergyTol)
MoiEq(expected, actual12) ==
  \A c \in 1..3 : Abs(12 * expected[c] - actual12[c]) <= 12 * InertiaTol

VARIABLES
  dt, modelCount, collision, isComplex,  \* parameters of the scenario
  sim,          \* behaviour of the simulator, fixed for the whole test
  world,        \* simulator: simTime (ticks), iterations, gravity, maxStepSize
  links,        \* simulator: the spawned bodies, in spawn order
  msgModel,     \* the model message the bodies are spawned from
  pc,           \* position in Boxes
  failedAt,     \* the fatal assertion that ended the scenario, or "none"
  base,         \* v0, w0, E0, g, t0, p0, H0 as set by Boxes
  steps, i,     \* loop bound and loop counter
  acc,          \* the five error accumulators
  lastSample,   \* the error sample of the latest loop iteration
  records,      \* the Record calls made by Boxes, in order
  run,          \* number of the current run of the scenario
  prevRecords   \* the records of the previous run

vars == <<dt, modelCount, collision, isComplex, sim, world, links, msgModel,
          pc, failedAt, base, steps, i, acc, lastSample, records, run,
          prevRecords>>

params == <<dt, modelCount, collision, isComplex, sim>>

\* ---- readings of the simulator ----
BodyMode(b) == sim.body[b]

\* world-frame linear velocity of link b, in 1/(10 * TicksPerSec)
WorldCoGLinearVel(wd, b) ==
  LET d == Dev(sim, wd.iterations)
      bad == IF BodyMode(b) = "badV" THEN TicksPerSec ELSE 0
  IN  VAdd(VAdd(VScale(links[b].lin, TicksPerSec),
                VScale(wd.gravity, wd.simTime)),
           <<d + bad, -d, 0>>)

\* world-frame angular velocity of link b, in tenths
WorldAngularVel(b) ==
  VAdd(links[b].ang, IF BodyMode(b) = "badW" THEN <<0, 0, 1>> ELSE VZero)

\* 12 * the diagonal of the link's inertia, in 1e-8
MOI12(b) ==
  LET a == BoxInertia12(msgModel.mass, msgModel.size[1], msgModel.size[2],
                        msgModel.size[3])
  IN  IF sim.moi = "analytic" THEN a ELSE <<a[1] + 1000000, a[2], a[3]>>

\* position of the link's centre of mass, in 1/(20 * TicksPerSec^2)
WorldInertialPos(wd, b) ==
  LET t == wd.simTime
      d == Dev(sim, wd.iterations)
  IN  VAdd(VAdd(VScale(links[b].pos, 2 * TicksPerSec * TicksPerSec),
                VAdd(VScale(links[b].lin, 2 * TicksPerSec * t),
                     VScale(wd.gravity, t * t))),
           <<0, d, 2 * d>>)

InitialEnergy(wd, b) ==
  LET pot == PotentialEnergy(msgModel.mass, wd.gravity[3], links[b].pos[3])
      nominal == LAdd(LHalf(KineticEnergy2(msgModel.mass, links[b].lin,
                                           links[b].ang, I0)), pot)
      exact == LAdd(LHalf(KineticEnergy2Exact(msgModel.mass, links[b].lin,
                                              links[b].ang, MOI12(b))), pot)
  IN  CASE sim.energy = "analytic" -> exact
        [] sim.energy = "nominal" -> nominal
        [] sim.energy = "expected" -> E0Of(isComplex)
        [] OTHER -> LShift(E0Of(isComplex), 5 * EnergyDevUnit)

\* kinetic + potential energy of link b
GetWorldEnergy(wd, b) ==
  LShift(InitialEnergy(wd, b), Dev(sim, wd.iterations) * EnergyDevUnit)

InitialMomentum(b) ==
  LET h12 == Momentum(MOI12(b), links[b].ang)
      h == <<LDivSmall(h12[1], 12), LDivSmall(h12[2], 12), LDivSmall(h12[3], 12)>>
  IN  IF sim.momentum = "analytic" THEN h
      ELSE <<h[1], LShift(h[2], 1000000), h[3]>>

\* world-frame angular momentum of link b, limb numbers
WorldAngularMomentum(wd, b) ==
  LET h == InitialMomentum(b)
      d == Dev(sim, wd.iterations)
  IN  <<LShift(h[1], d), h[2], LShift(h[3], Abs(d))>>

\* Euler angles: an angle of n/(10 * TicksPerSec) rad is normalised into
\* (-pi, pi] by subtracting whole turns
Pi1e6 == 3141592
TwoPi1e3 == 6283
Turns(n) ==
  (n * 100000 + Pi1e6 * TicksPerSec) \div (2 * Pi1e6 * TicksPerSec)
\* the normalised angle, in 1/(1000 * TicksPerSec) rad
Euler(n) == n * 100 - Turns(n) * TwoPi1e3 * TicksPerSec
VEuler(a) == <<Euler(a[1]), Euler(a[2]), Euler(a[3])>>

\* Euler angles of the orientation of link b
WorldInertialRotEuler(wd, b) ==
  LET d == Dev(sim, wd.iterations)
  IN  VEuler(VAdd(VScale(links[b].ang, wd.simTime), <<d, 0, 0>>))

\* ---- error statistics (maxAbs) ----
NewSignalStats == [count |-> 0, maxAbs |-> 0]
NewVector3Stats == [x |-> NewSignalStats, y |-> NewSignalStats,
                    z |-> NewSignalStats, mag |-> NewSignalStats]
NewEnergyStats == [count |-> 0, maxAbs |-> LZero]

SignalInsert(st, x) ==
  [count |-> st.count + 1,
   maxAbs |-> IF Abs(x) > st.maxAbs THEN Abs(x) ELSE st.maxAbs]

\* the magnitude statistic is kept squared (the square root is monotone)
Vector3Insert(st, v) ==
  [x |-> SignalInsert(st.x, v[1]), y |-> SignalInsert(st.y, v[2]),
   z |-> SignalInsert(st.z, v[3]), mag |-> SignalInsert(st.mag, VLen2(v))]

\* a relative energy error is kept as |E - E0| over the fixed E0
EnergyInsert(st, smp) ==
  [count |-> st.count + 1,
   maxAbs |-> IF LLess(st.maxAbs, smp.abs) THEN smp.abs ELSE st.maxAbs]

NewAcc == [linearPositionError |-> NewVector3Stats,
           linearVelocityError |-> NewVector3Stats,
           angularPositionError |-> NewVector3Stats,
           angularMomentumError |-> NewVector3Stats,
           energyError |-> NewEnergyStats]

NoSample == [k |-> 0]
NoBase == [v0 |-> VZero, w0 |-> VZero, E0 |-> LZero, g |-> VZero, t0 |-> 0,
           p0 |-> VZero, H0 |-> <<LZero, LZero, LZero>>]
NewWorld == [simTime |-> 0, iterations |-> 0, gravity |-> WorldDefaultGravity,
             maxStepSize |-> 1]
NoMsg == [mass |-> 0, size |-> VZero, hasCollision |-> TRUE]

\* mutant: each error is taken relative to the sample of the step before
SampleError_Compounding(wd, link, bs, cplx) ==
  LET t == wd.simTime - bs.t0
      v == WorldCoGLinearVel(wd, link)
      p == WorldInertialPos(wd, link)
      H == WorldAngularMomentum(wd, link)
      E == GetWorldEnergy(wd, link)
      prev == IF lastSample = NoSample
                THEN [linVel |-> VZero, linPos |-> VZero, angMom |-> VZero]
                ELSE [linVel |-> lastSample.linVel, linPos |-> lastSample.linPos,
                      angMom |-> <<lastSample.angMom[1], lastSample.angMom[2],
                                   lastSample.angMom[3]>>]
  IN  [k |-> wd.iterations,
       t |-> t,
       linVel |-> VSub(VSub(v, VAdd(VScale(bs.v0, TicksPerSec),
                                    VScale(bs.g, t))), prev.linVel),
       linPos |-> VSub(VSub(p, VAdd(bs.p0,
                                    VAdd(VScale(bs.v0, 2 * TicksPerSec * t),
                                         VScale(bs.g, t * t)))), prev.linPos),
       angMom |-> [c \in 1..3 |->
                     LToIntDiff(H[c], bs.H0[c]) \div LimbBase - prev.angMom[c]],
       hasAngPos |-> ~cplx,
       angPos |-> IF cplx THEN VZero
                  ELSE VSub(WorldInertialRotEuler(wd, link),
                            VEuler(VScale(bs.w0, t))),
       energy |-> [neg |-> LLess(E, bs.E0), abs |-> LAbsDiff(E, bs.E0),
                   den |-> bs.E0]]

\* ---- the per-step error sample (src/boxes.cc, body of the loop) ----
SampleError(wd, link, bs, cplx) ==
  LET t == wd.simTime - bs.t0
      v == WorldCoGLinearVel(wd, link)
      p == WorldInertialPos(wd, link)
      H == WorldAngularMomentum(wd, link)
      E == GetWorldEnergy(wd, link)
  IN  [k |-> wd.iterations,
       t |-> t,
       linVel |-> VSub(v, VAdd(VScale(bs.v0, TicksPerSec), VScale(bs.g, t))),
       linPos |-> VSub(p, VAdd(bs.p0,
                               VAdd(VScale(bs.v0, 2 * TicksPerSec * t),
                                    VScale(bs.g, t * t)))),
       \* (H - H0) / |H0|, numerators in 1e-10
       angMom |-> [c \in 1..3 |-> LToIntDiff(H[c], bs.H0[c]) \div LimbBase],
       hasAngPos |-> ~cplx,
       angPos |-> IF cplx THEN VZero
                  ELSE VSub(WorldInertialRotEuler(wd, link),
                            VEuler(VScale(bs.w0, t))),
       \* (E - E0) / E0
       energy |-> [neg |-> LLess(E, bs.E0), abs |-> LAbsDiff(E, bs.E0),
                   den |-> bs.E0]]

\* mutant: the angular position is sampled in the complex scenario too
InsertSample_AlwaysAngular(a, smp) ==
  [linearVelocityError |-> Vector3Insert(a.linearVelocityError, smp.linVel),
   linearPositionError |-> Vector3Insert(a.linearPositionError, smp.linPos),
   angularMomentumError |-> Vector3Insert(a.angularMomentumError, smp.angMom),
   angularPositionError |-> Vector3Insert(a.angularPositionError, smp.angPos),
   energyError |-> EnergyInsert(a.energyError, smp.energy)]

InsertSample(a, smp) ==
  [linearVelocityError |-> Vector3Insert(a.linearVelocityError, smp.linVel),
   linearPositionError |-> Vector3Insert(a.linearPositionError, smp.linPos),
   angularMomentumError |-> Vector3Insert(a.angularMomentumError, smp.angMom),
   angularPositionError |->
     IF smp.hasAngPos THEN Vector3Insert(a.angularPositionError, smp.angPos)
                      ELSE a.angularPositionError,
   energyError |-> EnergyInsert(a.energyError, smp.energy)]

\* world->Step(1)
WorldStep(wd) ==
  [wd EXCEPT !.iterations = @ + 1,
             !.simTime = @ + (IF sim.step = "exact" THEN wd.maxStepSize ELSE 0)]

\* mutant: the energy statistic is asserted together with the timing
TimingOk_AndEnergy(elapsed, d) ==
  /\ TimeTolDen * Abs(elapsed - Duration) <= TimeTolNum * d
  /\ ~LLess(base.E0, LScale(LScale(acc.energyError.maxAbs, 1000), 1000))

\* ASSERT_NEAR(simTime, simDuration, _dt*1.1)
TimingOk(elapsed, d) == TimeTolDen * Abs(elapsed - Duration) <= TimeTolNum * d

Fail(what) == pc' = "failed" /\ failedAt' = what

\* ---- the scenario ----
Init ==
  /\ dt \in DtSet
  /\ modelCount \in 0..MaxModels
  /\ collision \in BOOLEAN
  /\ isComplex \in BOOLEAN
  /\ sim \in [load : LoadModes, body : [1..modelCount -> BodyModes],
              moi : MoiModes, energy : EnergyModes, momentum : MomentumModes,
              step : StepModes, errAmp : 0..MaxErrAmp]
  /\ world = NewWorld
  /\ links = <<>>
  /\ msgModel = NoMsg
  /\ pc = "load"
  /\ failedAt = "none"
  /\ base = NoBase
  /\ steps = 0
  /\ i = 0
  /\ acc = NewAcc
  /\ lastSample = NoSample
  /\ records = <<>>
  /\ run = 1
  /\ prevRecords = <<>>

\* lines 36-51: load the world, check the engine, read the gravity
Load ==
  /\ pc = "load"
  /\ IF sim.load = "noWorld" THEN Fail("world") /\ UNCHANGED <<world, base>>
     ELSE IF sim.load = "noPhysics" THEN Fail("physics") /\ UNCHANGED <<world, base>>
     ELSE IF sim.load = "wrongType" THEN Fail("engineType") /\ UNCHANGED <<world, base>>
     ELSE /\ world' = [world EXCEPT !.gravity = IF ~isComplex THEN VZero ELSE @]
          /\ base' = [base EXCEPT !.g = world'.gravity]
          /\ pc' = "configure"
          /\ UNCHANGED failedAt
  /\ UNCHANGED <<params, links, msgModel, steps, i, acc, lastSample, records,
                 run, prevRecords>>

\* lines 53-106: the box, the model message, the initial conditions
Configure ==
  /\ pc = "configure"
  /\ msgModel' = [mass |-> mass, size |-> <<dx, dy, dz>>,
                  hasCollision |-> collision]
  /\ IF ~(modelCount > 0) THEN Fail("modelCount") /\ UNCHANGED <<base, i>>
     ELSE /\ base' = [base EXCEPT !.v0 = V0(isComplex), !.w0 = W0(isComplex),
                                  !.E0 = E0Of(isComplex)]
          /\ i' = 0
          /\ pc' = "spawn"
          /\ UNCHANGED failedAt
  /\ UNCHANGED <<params, world, links, steps, acc, lastSample, records, run,
                 prevRecords>>

\* lines 108-125: one iteration of the spawning loop
SpawnModel ==
  /\ pc = "spawn"
  /\ i < modelCount
  /\ IF BodyMode(i + 1) = "nullModel"
       THEN Fail("model") /\ UNCHANGED <<links, i>>
     ELSE IF BodyMode(i + 1) = "nullLink"
       THEN /\ Fail("link")
            /\ links' = Append(links, [lin |-> VZero, ang |-> VZero,
                                       pos |-> <<0, dz * 2 * i, 0>>])
            /\ UNCHANGED i
     ELSE /\ links' = Append(links, [lin |-> base.v0, ang |-> base.w0,
                                     pos |-> <<0, dz * 2 * i, 0>>])
          /\ i' = i + 1
          /\ UNCHANGED <<pc, failedAt>>
  /\ UNCHANGED <<params, world, msgModel, base, steps, acc, lastSample,
                 records, run, prevRecords>>

\* mutant: the first body is the one that is checked
CheckedLink_First(ls) == 1

\* the link the statistics are computed on: the last one spawned
CheckedLink(ls) == Len(ls)

\* mutant: the initial energy is not asserted
InitialCheck_NoEnergy(wd, link, bs) ==
  IF VScale(bs.v0, TicksPerSec) # WorldCoGLinearVel(wd, link) THEN "v0"
  ELSE IF bs.w0 # WorldAngularVel(link) THEN "w0"
  ELSE IF ~MoiEq(I0, MOI12(link)) THEN "I0"
  ELSE "none"

\* lines 126-135: the first of the initial-condition assertions that fails
InitialCheck(wd, link, bs) ==
  IF VScale(bs.v0, TicksPerSec) # WorldCoGLinearVel(wd, link) THEN "v0"
  ELSE IF bs.w0 # WorldAngularVel(link) THEN "w0"
  ELSE IF ~MoiEq(I0, MOI12(link)) THEN "I0"
  ELSE IF ~LNear(GetWorldEnergy(wd, link), bs.E0, EnergyTol) THEN "E0"
  ELSE "none"

CheckInitial ==
  /\ pc = "spawn"
  /\ i >= modelCount
  /\ LET r == InitialCheck(world, CheckedLink(links), base)
     IN  IF r # "none" THEN Fail(r)
         ELSE pc' = "baseline" /\ UNCHANGED failedAt
  /\ UNCHANGED <<params, world, links, msgModel, base, steps, i, acc,
                 lastSample, records, run, prevRecords>>

\* lines 137-182: t0, p0, H0, the step size, the number of steps, the
\* accumulators
Baseline ==
  /\ pc = "baseline"
  /\ LET link == CheckedLink(links)
         H0 == WorldAngularMomentum(world, link)
     IN  /\ base' = [base EXCEPT !.t0 = world.simTime,
                                 !.p0 = WorldInertialPos(world, link),
                                 !.H0 = H0]
         /\ IF ~LVecEq(H0, Momentum(I0, base.w0))
              THEN Fail("H0") /\ UNCHANGED <<world, steps, i, acc>>
            ELSE /\ world' = [world EXCEPT !.maxStepSize = dt]
                 /\ steps' = StepsFor(dt)
                 /\ acc' = NewAcc
                 /\ i' = 0
                 /\ pc' = "loop"
                 /\ UNCHANGED failedAt
  /\ UNCHANGED <<params, links, msgModel, lastSample, records, run,
                 prevRecords>>

\* lines 183-232: one iteration of the stepping loop
StepOnce ==
  /\ pc = "loop"
  /\ i < steps
  /\ world' = WorldStep(world)
  /\ lastSample' = SampleError(world', CheckedLink(links), base, isComplex)
  /\ acc' = InsertSample(acc, lastSample')
  /\ i' = i + 1
  /\ UNCHANGED <<params, links, msgModel, pc, failedAt, base, steps, records,
                 run, prevRecords>>

Rec(n, v) == [name |-> n, value |-> v]

\* mutant: the wall-clock time is recorded as the simulated time
FinalRecords_WallAsSim(wall, elapsed, bs, a) ==
  <<[name |-> "simTime", value |-> wall],
    [name |-> "timeRatio", value |-> <<wall, elapsed>>],
    [name |-> "energy0", value |-> bs.E0],
    [name |-> "energyError_", value |-> a.energyError],
    [name |-> "angMomentum0", value |-> [lengthOf |-> bs.H0]],
    [name |-> "angMomentumErr_", value |-> a.angularMomentumError.mag],
    [name |-> "angPositionErr", value |-> a.angularPositionError],
    [name |-> "linPositionErr_", value |-> a.linearPositionError.mag],
    [name |-> "linVelocityErr_", value |-> a.linearVelocityError.mag]>>

\* mutant: timeRatio is recorded before simTime
FinalRecords_Reordered(wall, elapsed, bs, a) ==
  <<[name |-> "timeRatio", value |-> <<wall, elapsed>>],
    [name |-> "simTime", value |-> elapsed],
    [name |-> "energy0", value |-> bs.E0],
    [name |-> "energyError_", value |-> a.energyError],
    [name |-> "angMomentum0", value |-> [lengthOf |-> bs.H0]],
    [name |-> "angMomentumErr_", value |-> a.angularMomentumError.mag],
    [name |-> "angPositionErr", value |-> a.angularPositionError],
    [name |-> "linPositionErr_", value |-> a.linearPositionError.mag],
    [name |-> "linVelocityErr_", value |-> a.linearVelocityError.mag]>>

\* lines 237-247: the records that follow the timing assertion
FinalRecords(wall, elapsed, bs, a) ==
  <<Rec("simTime", elapsed),
    Rec("timeRatio", <<wall, elapsed>>),
    Rec("energy0", bs.E0),
    Rec("energyError_", a.energyError),
    Rec("angMomentum0", [lengthOf |-> bs.H0]),
    Rec("angMomentumErr_", a.angularMomentumError.mag),
    Rec("angPositionErr", a.angularPositionError),
    Rec("linPositionErr_", a.linearPositionError.mag),
    Rec("linVelocityErr_", a.linearVelocityError.mag)>>

\* lines 233-248: after the loop
Finish ==
  /\ pc = "loop"
  /\ i >= steps
  /\ \E wall \in 1..MaxWall :
       LET elapsed == world.simTime - base.t0
       IN  IF ~TimingOk(elapsed, dt)
             THEN /\ records' = <<Rec("wallTime", wall)>>
                  /\ Fail("simTime")
           ELSE /\ records' = <<Rec("wallTime", wall)>>
                               \o FinalRecords(wall, elapsed, base, acc)
                /\ pc' = "done"
                /\ UNCHANGED failedAt
  /\ UNCHANGED <<params, world, links, msgModel, base, steps, i, acc,
                 lastSample, run, prevRecords>>

\* lines 251-274: the same parameter combination is run once more, against
\* a freshly loaded world
Rerun ==
  /\ pc \in {"done", "failed"}
  /\ run < MaxRuns
  /\ run' = run + 1
  /\ prevRecords' = records
  /\ world' = NewWorld
  /\ links' = <<>>
  /\ msgModel' = NoMsg
  /\ pc' = "load"
  /\ failedAt' = "none"
  /\ base' = NoBase
  /\ steps' = 0
  /\ i' = 0
  /\ acc' = NewAcc
  /\ lastSample' = NoSample
  /\ records' = <<>>
  /\ UNCHANGED params

Next ==
  \/ Load
  \/ Configure
  \/ SpawnModel
  \/ CheckInitial
  \/ Baseline
  \/ StepOnce
  \/ Finish
  \/ Rerun

Spec == Init /\ [][Next]_vars

TypeOK ==
  /\ pc \in {"load", "configure", "spawn", "baseline", "loop", "done", "failed"}
  /\ i \in 0..(Duration + MaxModels)
  /\ run \in 1..MaxRuns

\* ---- properties ----
SetupFailures == {"world", "physics", "engineType", "modelCount", "model",
                  "link", "v0", "w0", "I0", "E0", "H0"}

RecordSeqNames(rs) == [k \in 1..Len(rs) |-> rs[k].name]

Elapsed == world.simTime - base.t0

\* the maximum relative energy error is above 1e-6
EnergyExceeds(st) == LLess(base.E0, LScale(LScale(st.maxAbs, 1000), 1000))

\* C1 (as claimed): a scenario whose accumulated maximum relative energy
\* error exceeds 1e-6 never ends as a passing scenario.
C1_ToleranceViolationFails ==
  ~(pc = "done" /\ EnergyExceeds(acc.energyError))

\* C1 (amended): the accumulated error statistics are recorded, not asserted.
\* A scenario fails only at a setup assertion or at the timing assertion, the
\* timing failure happens only when the elapsed simulated time is out of
\* tolerance, and a passing scenario records the accumulated maxima as they
\* are, whatever their size.
C1_ErrorsOnlyRecorded ==
  /\ pc = "failed" => failedAt \in SetupFailures \cup {"simTime"}
  /\ failedAt = "simTime" => ~(TimeTolDen * Abs(Elapsed - Duration) <= TimeTolNum * dt)
  /\ pc = "done" =>
       /\ records[5] = Rec("energyError_", acc.energyError)
       /\ records[7] = Rec("angMomentumErr_", acc.angularMomentumError.mag)
       /\ records[9] = Rec("linPositionErr_", acc.linearPositionError.mag)
       /\ records[10] = Rec("linVelocityErr_", acc.linearVelocityError.mag)

C1_Witness == pc = "done" /\ EnergyExceeds(acc.energyError)

AccCounts ==
  <<acc.linearVelocityError.x.count, acc.linearPositionError.x.count,
    acc.angularMomentumError.x.count, acc.energyError.count,
    acc.angularPositionError.x.count>>

\* C2: every initial-condition assertion is evaluated before the first
\* Step(1): a scenario that fails one of them has executed no step, inserted
\* no sample and made no Record call, and once a step has been executed the
\* simulator's report of v0, w0, the inertia, E0 and H0 was consistent.
C2_SetupBeforeStepping ==
  /\ (pc = "failed" /\ failedAt \in SetupFailures) =>
       /\ world.iterations = 0
       /\ AccCounts = <<0, 0, 0, 0, 0>>
       /\ lastSample = NoSample
       /\ records = <<>>
  /\ world.iterations > 0 =>
       /\ failedAt \in {"none", "simTime"}
       /\ BodyMode(modelCount) = "ok"
       /\ sim.moi = "analytic"
       /\ sim.momentum = "analytic"
       /\ LNear(InitialEnergy(world, modelCount), E0Of(isComplex), EnergyTol)

C2_Witness == pc = "failed" /\ failedAt = "H0" /\ world.iterations = 0

\* C3: when every Step(1) advances the simulated time by exactly dt, the loop
\* runs the least number N of steps with N*dt >= 10 s, the elapsed time is
\* N*dt, it is within 1.1*dt of 10 s, and the timing assertion does not fail.
C3_TimingNeverFails ==
  sim.step = "exact" =>
    /\ failedAt # "simTime"
    /\ pc \in {"loop", "done"} =>
         /\ steps * dt >= Duration
         /\ (steps - 1) * dt < Duration
         /\ Elapsed = i * dt
    /\ pc = "done" =>
         /\ i = steps
         /\ TimeTolDen * Abs(Elapsed - Duration) <= TimeTolNum * dt

C3_Witness == pc = "done" /\ sim.step = "exact" /\ Duration % dt # 0

\* C4 (as claimed): in the complex scenario the kinetic energy computed from
\* mass 10, v0, w0 and the inertia diag(0.80833333, 0.68333333, 0.14166667)
\* is within 1e-6 of the hard-coded E0, so the initial-energy assertion
\* passes when the simulator reports that energy.
C4_ComplexEnergyPasses ==
  (isComplex /\ sim.energy = "nominal") => failedAt # "E0"

\* C5: the inertia of the uniform box of mass 10 and size (0.1, 0.4, 0.9) is
\* within 1e-6 of the hard-coded (Ixx, Iyy, Izz) in every component, so the
\* inertia assertion passes on the inertia the box message yields.
C5_BoxInertiaMatches ==
  /\ sim.moi = "analytic" => failedAt # "I0"
  /\ pc \in {"spawn", "baseline", "loop", "done"} =>
       \A c \in 1..3 :
         Abs(12 * I0[c] - BoxInertia12(msgModel.mass, msgModel.size[1],
                                       msgModel.size[2], msgModel.size[3])[c])
           <= 12 * InertiaTol

C5_Witness == pc = "baseline" /\ sim.moi = "analytic"

\* C6: the baselines are fixed for the whole run: no step of the loop, and no
\* step out of it, changes v0, w0, E0, g, t0, p0 or H0, the inertia or the
\* gravity; and the sample of step k is the deviation of the simulator at
\* step k at the elapsed time of step k, not that of an earlier step.
C6_BaselinesFixed ==
  /\ [][pc = "loop" => (base' = base /\ world'.gravity = world.gravity
                        /\ msgModel' = msgModel /\ links' = links)]_vars
  /\ [](pc = "loop" /\ i > 0 =>
          LET d == Dev(sim, world.iterations)
          IN  /\ lastSample.k = i
              /\ lastSample.t = world.simTime - base.t0
              /\ lastSample.linVel = <<d, -d, 0>>
              /\ lastSample.linPos = <<0, d, 2 * d>>
              /\ lastSample.angMom = <<d, 0, Abs(d)>>
              /\ base.g = world.gravity
              /\ base.v0 = V0(isComplex) /\ base.w0 = W0(isComplex)
              /\ base.E0 = E0Of(isComplex))

C6_Witness == pc = "loop" /\ i >= 3 /\ sim.errAmp > 0

C8_SameRecords ==
  (run >= 2 /\ pc = "done") => records = prevRecords

\* C8 (amended): against a deterministic simulator the second run of a
\* scenario emits the same records as the first except for the wall-clock
\* measurements: simTime, energy0, energyError_, angMomentum0,
\* angMomentumErr_, angPositionErr, linPositionErr_ and linVelocityErr_ are
\* identical, and so is the simulated-time part of timeRatio.
C8_SameSimulatedRecords ==
  (run >= 2 /\ pc = "done") =>
    /\ Len(records) = Len(prevRecords)
    /\ \A k \in 1..Len(records) :
         /\ records[k].name = prevRecords[k].name
         /\ records[k].name \notin {"wallTime", "timeRatio"} =>
              records[k] = prevRecords[k]
         /\ records[k].name = "timeRatio" =>
              records[k].value[2] = prevRecords[k].value[2]

C8_Witness ==
  run >= 2 /\ pc = "done" /\ records[1] # prevRecords[1] /\ sim.errAmp > 0

\* C9: after k iterations of the loop the linear-velocity, linear-position,
\* angular-momentum and energy accumulators hold k samples each; the
\* angular-position accumulator holds k samples in the simple scenario and
\* none in the complex one, where angPositionErr is recorded all the same.
C9_OneSamplePerStep ==
  /\ pc \in {"loop", "done"} =>
       /\ world.iterations = i
       /\ AccCounts = <<i, i, i, i, IF isComplex THEN 0 ELSE i>>
       /\ acc.linearVelocityError.mag.count = i
       /\ acc.linearPositionError.mag.count = i
       /\ acc.angularMomentumError.mag.count = i
  /\ pc = "done" =>
       /\ i = steps
       /\ records[8] = Rec("angPositionErr", acc.angularPositionError)

C9_Witness ==
  pc = "done" /\ isComplex /\ i >= 3 /\ acc.angularPositionError.x.count = 0

\* C10: a scenario that fails the timing assertion has emitted wallTime and
\* nothing else; a passing scenario has emitted the ten records once each, in
\* the order of the code, after the last step; before the end of the loop
\* nothing is emitted.
C10_RecordsAroundTiming ==
  /\ failedAt = "simTime" =>
       RecordSeqNames(records) = <<"wallTime">> /\ world.iterations = steps
  /\ pc = "done" =>
       RecordSeqNames(records) = RecordNames /\ world.iterations = steps
  /\ (pc # "done" /\ failedAt # "simTime") => records = <<>>

C10_Witness ==
  pc = "failed" /\ failedAt = "simTime" /\ Len(records) = 1 /\ steps > 0
====
